---- MODULE Spec2Model ----
(***************************************************************************)
(* The HTML streaming pipeline of cf-head-html-streaming-performance:      *)
(*   src/src/lib/streaming.ts        createStreamingPipeline, encodeChunk, *)
(*                                   simulateDungeonDelay                  *)
(*   src/src/handlers/stream-quest.ts handleStreamQuest, streamQuestContent*)
(*                                                                         *)
(* The specifications share the channel operators:                        *)
(*   Spec      NumReqs requests go through handleStreamQuest; each starts  *)
(*             its streamQuestContent task; the transport reads, or        *)
(*             cancels, the readable end of the response.                  *)
(*             A request can instead go through handleNoStreamQuest        *)
(*             (src/src/handlers/no-stream-quest.ts).                      *)
(*   SpecLive  Spec with the fairness of the event loop, the timers and a  *)
(*             transport that keeps reading.                               *)
(*   SpecPipe  a caller drives one writer returned by                      *)
(*             createStreamingPipeline with arbitrary write()/close()      *)
(*             calls, one awaited call at a time, against a reader.        *)
(*                                                                         *)
(* The channel is the platform's TransformStream with no transformer and   *)
(* default strategies (streaming.ts line 20): writable high-water mark 1,  *)
(* readable high-water mark 0.  A write is held back until the reader has  *)
(* asked for a chunk, and the chunk is then handed to that read; a         *)
(* cancelled readable end errors the writable end with the cancel reason;  *)
(* write() on an errored or closed writable end rejects, and so does       *)
(* close().                                                                *)
(***************************************************************************)
EXTENDS Integers, Sequences, FiniteSets, TLC

\* Number of concurrent requests handled by handleStreamQuest.
NumReqs == 2
\* Number of write()/close() calls the caller of SpecPipe makes.
MaxCalls == 3
\* Milliseconds by which one step of a running timer advances it.
TickMs == 1000
\* Number of times the buttons of the comparison page are pressed.
MaxClicks == 3
\* Milliseconds by which one step advances the clock of the comparison page.
RaceTickMs == 50
\* Number of stylesheet links whose onload calls the quest logger.
NumLinks == 2
\* Milliseconds by which one step advances the clock of the quest page.
LoggerTickMs == 50
\* Milliseconds of the quest page's clock that are followed.
MaxElapsedMs == 300
\* The delay of the timeout that calls onJsLoaded (quest.js, line 164).
JsLoadedDelayMs == 100

Reqs == 1..NumReqs

VARIABLES
    hpc,       \* hpc[r]: position of handleStreamQuest for request r
    cfg,       \* cfg[r]: the QuestConfig the handler runs with
    tpc,       \* tpc[r]: position of streamQuestContent
    chan,      \* chan[r]: the TransformStream of request r
    ops,       \* ops[r]: writer operations and delays the task has issued, in order
    rejected,  \* rejected[r]: the issued operations whose promise rejected
    sent,      \* sent[r]: the chunks passed to writer.write, in call order
    texc,      \* texc[r]: the exception propagating out of the task, or "none"
    tres,      \* tres[r]: state of the promise returned by streamQuestContent
    tracked,   \* tracked[r]: the promise was passed to ctx.waitUntil
    resp,      \* resp[r]: the Response returned by the handler, or NoResponse
    waited,    \* waited[r]: milliseconds the request's setTimeout has been running
    page,      \* page[r]: the body string of a non-streaming Response, or NoPage
    rq,        \* rq[r]: the Request the router's fetch was called with
    route,     \* route[r]: the branch of the router's fetch taken for request r
    defaultConfig, \* the module-level object DEFAULT_QUEST_CONFIG
    raceInterval, \* compare page: the interval of updateTimer is scheduled
    startTime, \* compare page: performance.now() at startRace, or null
    streamDone, \* compare page: flag of checkRaceComplete
    tradDone,  \* compare page: flag of checkRaceComplete
    timeouts,  \* compare page: the pending setTimeout callbacks
    now,       \* compare page: performance.now(), in milliseconds
    dom,       \* compare page: the elements the script writes to
    clicks,    \* compare page: the buttons pressed so far, in order
    questState, \* quest logger: cssLoaded, jsLoaded, armorEquippedTime
    questEntries, \* quest logger: the #quest-entries element and its entries
    loader,    \* quest logger: what the page has loaded and scheduled
    elapsed,   \* quest logger: performance.now() - questState.startTime
    armorSets, \* quest logger: assignments made to armorEquippedTime
    pipe,      \* SpecPipe: the TransformStream behind the writer under test
    pcall,     \* SpecPipe: the call in flight on the writer, or NoCall
    plog       \* SpecPipe: the settled calls, in order, with their outcomes

reqVars  == <<hpc, cfg, tpc, chan, ops, rejected, texc, tres, tracked, resp,
              waited, page, rq, route, defaultConfig, sent>>
\* What the timer and the non-streaming handler add to a request.
auxVars  == <<waited, page>>
pipeVars == <<pipe, pcall, plog>>
\* The script of the comparison page (index.ts 590-782).
raceVars == <<raceInterval, startTime, streamDone, tradDone, timeouts, now, dom,
              clicks>>
\* The quest logger (quest.js) in the page of the head chunk.
loggerVars == <<questState, questEntries, loader, elapsed, armorSets>>
\* What runs in the browser.
clientVars == <<raceInterval, startTime, streamDone, tradDone, timeouts, now,
                dom, clicks, questState, questEntries, loader, elapsed, armorSets>>
\* What runs in the Worker.
serverVars == <<hpc, cfg, tpc, chan, ops, rejected, texc, tres, tracked, resp,
                waited, page, rq, route, defaultConfig, sent, pipe, pcall,
                plog>>
\* What the router of index.ts and the module's default config add.
routerVars == <<rq, route, defaultConfig>>
vars     == <<hpc, cfg, tpc, chan, ops, rejected, texc, tres, tracked, resp,
              waited, page, rq, route, defaultConfig, sent, pipe, pcall, plog,
              raceInterval, startTime, streamDone, tradDone, timeouts, now, dom,
              clicks, questState, questEntries, loader, elapsed, armorSets>>

----------------------------------------------------------------------------
\* Configuration and templates

DEFAULT_QUEST_CONFIG == [dungeonDelayMs |-> 2000, armorDownloadMs |-> 800]

\* The configs a caller passes; the router passes none, so the default applies.
Configs == {DEFAULT_QUEST_CONFIG, [dungeonDelayMs |-> 0, armorDownloadMs |-> 800]}

\* Mutant: the streaming response may be cached.
RESPONSE_HEADERS_Cacheable ==
    { <<"Content-Type", "text/html; charset=utf-8">>,
      <<"Transfer-Encoding", "chunked">>,
      <<"X-Content-Type-Options", "nosniff">>,
      <<"Cache-Control", "max-age=60">> }

RESPONSE_HEADERS ==
    { <<"Content-Type", "text/html; charset=utf-8">>,
      <<"Transfer-Encoding", "chunked">>,
      <<"X-Content-Type-Options", "nosniff">>,
      <<"Cache-Control", "no-store">> }

\* The head chunk opens the document and shows the delay in seconds.
generateHeadChunk(config) ==
    [kind |-> "head", delay |-> config.dungeonDelayMs, armor |-> 0,
     msg |-> "", closesDoc |-> FALSE]

\* The body chunk reports both config values and closes </body></html>.
generateBodyChunk(config) ==
    [kind |-> "body", delay |-> config.dungeonDelayMs,
     armor |-> config.armorDownloadMs, msg |-> "", closesDoc |-> TRUE]

\* The error chunk carries the message and closes </body></html>.
generateErrorChunk(errorMessage) ==
    [kind |-> "error", delay |-> 0, armor |-> 0, msg |-> errorMessage,
     closesDoc |-> TRUE]

\* TextEncoder.encode: the UTF-8 bytes of the content.
encodeChunk(content) == [enc |-> "utf-8", text |-> content]

----------------------------------------------------------------------------
\* Thrown values

\* A TypeError is raised by the stream itself; a cancel reason is any value.
CancelReasons == {"CancelError", "CancelValue"}

IsError(e) == e \in {"TypeError", "CancelError"}

\* Mutant: the message of the thrown Error is not used.
ErrorMessage_AlwaysUnknown(e) == "Unknown error"

\* stream-quest.ts 80-81: error instanceof Error ? error.message : 'Unknown error'
ErrorMessage(e) == IF IsError(e) THEN e ELSE "Unknown error"

----------------------------------------------------------------------------
\* The channel: new TransformStream() and writable.getWriter()

\* What the reader knows of the end of the stream: not seen, or seen after
\* n chunks.
NotEnded == [seen |-> FALSE, at |-> 0]
EndedAt(n) == [seen |-> TRUE, at |-> n]

NewTransformStream ==
    [w |-> "writable", r |-> "readable", req |-> FALSE, err |-> "none",
     out |-> <<>>, eos |-> NotEnded]

\* rawWriter.write rejects unless the writable end is writable.
RawWriteRejects(ch) == ch.w # "writable"

\* The value rawWriter.write rejects with.
RawWriteError(ch) == IF ch.w = "errored" THEN ch.err ELSE "TypeError"

\* rawWriter.close rejects on a closed or errored writable end.
RawCloseRejects(ch) == ch.w # "writable"

\* Mutant: a write on an errored stream never settles.
WriterWriteOutcome_HangsOnError(ch) ==
    IF ch.w = "closed" THEN "rejected"
    ELSE IF ch.w = "writable" /\ ch.req THEN "ok" ELSE "pending"

\* writer.write of the pipeline: await rawWriter.write(chunk).
WriterWriteOutcome(ch) ==
    IF RawWriteRejects(ch) THEN "rejected"
    ELSE IF ch.req THEN "ok" ELSE "pending"

\* writer.close of the pipeline: await rawWriter.close().
WriterCloseOutcome(ch) == IF RawCloseRejects(ch) THEN "rejected" ELSE "ok"

\* Mutant: the newest chunk overtakes the ones written before it.
Deliver_Overtakes(ch, chunk) ==
    [ch EXCEPT !.out = <<chunk>> \o @, !.req = FALSE]

\* A write goes through: the chunk is handed to the pending read.
Deliver(ch, chunk) == [ch EXCEPT !.out = Append(@, chunk), !.req = FALSE]

\* Mutant: close() is not forwarded to the stream.
Closed_NotForwarded(ch) == ch

\* A close goes through: both ends closed, a pending read sees the end.
Closed(ch) ==
    [ch EXCEPT !.w = "closed", !.r = "closed", !.req = FALSE,
               !.eos = IF ch.req THEN EndedAt(Len(ch.out)) ELSE @]

\* The reader can ask for the next chunk, or find the end of a closed stream.
CanRead(ch) ==
    IF ch.r = "readable" THEN ~ch.req
    ELSE ch.r = "closed" /\ ~ch.eos.seen

Read(ch) ==
    IF ch.r = "readable" THEN [ch EXCEPT !.req = TRUE]
    ELSE [ch EXCEPT !.eos = EndedAt(Len(ch.out))]

\* readable.cancel(reason): the writable end is errored with the reason.
Cancel(ch, reason) ==
    [ch EXCEPT !.r = "cancelled", !.w = "errored", !.err = reason,
               !.req = FALSE]

----------------------------------------------------------------------------
\* streamQuestContent: try { head; delay; body } catch { error } finally { close }

\* What the task issues when it arrives at a position.
IssuedAt(pc) ==
    CASE pc = "awaitHead"  -> <<"write_head">>
      [] pc = "delay"      -> <<"delay">>
      [] pc = "awaitBody"  -> <<"write_body">>
      [] pc = "awaitError" -> <<"write_error">>
      [] pc = "awaitClose" -> <<"close">>
      [] OTHER             -> <<>>

\* The write whose promise the task awaits at a position.
WriteAt(pc) == Head(IssuedAt(pc))

\* Mutant: the body template is written first and the head template last.
ChunkAt_BodyFirst(pc, config, caught) ==
    CASE pc = "awaitHead"  -> encodeChunk(generateBodyChunk(config))
      [] pc = "awaitBody"  -> encodeChunk(generateHeadChunk(config))
      [] pc = "awaitError" -> encodeChunk(generateErrorChunk(ErrorMessage(caught)))

\* The chunk of the write awaited at a position.
ChunkAt(pc, config, caught) ==
    CASE pc = "awaitHead"  -> encodeChunk(generateHeadChunk(config))
      [] pc = "awaitBody"  -> encodeChunk(generateBodyChunk(config))
      [] pc = "awaitError" -> encodeChunk(generateErrorChunk(ErrorMessage(caught)))

\* The chunk the task passes to writer.write when it arrives at a position:
\* none where it issues a delay or close.
ChunksIssuedAt(pc, config, caught) ==
    IF pc \in {"awaitHead", "awaitBody", "awaitError"}
    THEN <<ChunkAt(pc, config, caught)>>
    ELSE <<>>

\* Mutant: the delay is not awaited.
PcAfterWriteOk_NoDelay(pc) ==
    CASE pc = "awaitHead"  -> "awaitBody"
      [] pc = "awaitBody"  -> "awaitClose"
      [] pc = "awaitError" -> "awaitClose"

\* Mutant: the task closes the stream right after the head chunk.
PcAfterWriteOk_HeadOnly(pc) ==
    CASE pc = "awaitHead"  -> "awaitClose"
      [] pc = "awaitBody"  -> "awaitClose"
      [] pc = "awaitError" -> "awaitClose"

\* Mutant: the error chunk is written after the body chunk as a trailer.
PcAfterWriteOk_ErrorAfterBody(pc) ==
    CASE pc = "awaitHead"  -> "delay"
      [] pc = "awaitBody"  -> "awaitError"
      [] pc = "awaitError" -> "awaitClose"

\* Where the task goes when the awaited write resolves.
PcAfterWriteOk(pc) ==
    CASE pc = "awaitHead"  -> "delay"
      [] pc = "awaitBody"  -> "awaitClose"
      [] pc = "awaitError" -> "awaitClose"

\* Mutant: close() follows the try/catch instead of sitting in finally, so
\* an exception thrown in catch leaves the function before it.
PcAfterWriteRejected_CloseNotInFinally(pc) ==
    CASE pc = "awaitHead"  -> "awaitError"
      [] pc = "awaitBody"  -> "awaitError"
      [] pc = "awaitError" -> "done"

\* Mutant: there is no catch block, a rejection goes straight to finally.
PcAfterWriteRejected_NoCatch(pc) ==
    CASE pc = "awaitHead"  -> "awaitClose"
      [] pc = "awaitBody"  -> "awaitClose"
      [] pc = "awaitError" -> "awaitClose"

\* Mutant: the head write is not awaited inside try, its rejection is lost
\* and the task goes on to the delay.
PcAfterWriteRejected_HeadIgnored(pc) ==
    CASE pc = "awaitHead"  -> "delay"
      [] pc = "awaitBody"  -> "awaitError"
      [] pc = "awaitError" -> "awaitClose"

\* Mutant: a failed error write is attempted again.
PcAfterWriteRejected_RetriesErrorWrite(pc) ==
    CASE pc = "awaitHead"  -> "awaitError"
      [] pc = "awaitBody"  -> "awaitError"
      [] pc = "awaitError" -> "awaitError"

\* Where the task goes when the awaited write rejects: a rejection inside
\* try enters catch, a rejection inside catch enters finally.
PcAfterWriteRejected(pc) ==
    CASE pc = "awaitHead"  -> "awaitError"
      [] pc = "awaitBody"  -> "awaitError"
      [] pc = "awaitError" -> "awaitClose"

\* The exception left pending after a write rejects with e: catch consumes the
\* one thrown in try, the one thrown in catch propagates through finally.
PendingAfterWriteRejected(pc, e) == IF pc = "awaitError" THEN e ELSE "none"

\* The promise of the task once close has settled.
TaskResult(pending, closeOutcome) ==
    IF closeOutcome = "rejected" THEN "rejected"
    ELSE IF pending # "none" THEN "rejected" ELSE "fulfilled"

WritePcs == {"awaitHead", "awaitBody", "awaitError"}

\* The error caught by the catch block: the rejection of the write that put
\* the task there.  The stream keeps it as its stored error.
Caught(ch) == RawWriteError(ch)

\* Mutant: the pipeline is created once at module level, so every task
\* writes into the channel of the first request.
TaskWriteResolve_SharedPipeline(r) ==
    /\ tpc[r] \in WritePcs
    /\ WriterWriteOutcome(chan[1]) = "ok"
    /\ chan' = [chan EXCEPT ![1] = Deliver(@, ChunkAt(tpc[r], cfg[r], Caught(@)))]
    /\ tpc' = [tpc EXCEPT ![r] = PcAfterWriteOk(@)]
    /\ ops' = [ops EXCEPT ![r] = @ \o IssuedAt(PcAfterWriteOk(tpc[r]))]
    /\ sent' = [sent EXCEPT ![r] = @ \o
                  ChunksIssuedAt(PcAfterWriteOk(tpc[r]), cfg[r], "none")]
    /\ UNCHANGED <<hpc, cfg, rejected, texc, tres, tracked, resp>>
    /\ UNCHANGED auxVars
    /\ UNCHANGED pipeVars
    /\ UNCHANGED clientVars
    /\ UNCHANGED routerVars

TaskWriteResolve(r) ==
    /\ tpc[r] \in WritePcs
    /\ WriterWriteOutcome(chan[r]) = "ok"
    /\ chan' = [chan EXCEPT ![r] = Deliver(@, ChunkAt(tpc[r], cfg[r], Caught(@)))]
    /\ tpc' = [tpc EXCEPT ![r] = PcAfterWriteOk(@)]
    /\ ops' = [ops EXCEPT ![r] = @ \o IssuedAt(PcAfterWriteOk(tpc[r]))]
    /\ sent' = [sent EXCEPT ![r] = @ \o
                  ChunksIssuedAt(PcAfterWriteOk(tpc[r]), cfg[r], "none")]
    /\ UNCHANGED <<hpc, cfg, rejected, texc, tres, tracked, resp>>
    /\ UNCHANGED auxVars
    /\ UNCHANGED pipeVars
    /\ UNCHANGED clientVars
    /\ UNCHANGED routerVars

\* Mutant: a failed write turns the response into a 500.
TaskWriteReject_SetsStatus(r) ==
    /\ tpc[r] \in WritePcs
    /\ WriterWriteOutcome(chan[r]) = "rejected"
    /\ rejected' = [rejected EXCEPT ![r] = @ \cup {WriteAt(tpc[r])}]
    /\ texc' = [texc EXCEPT ![r] =
                  PendingAfterWriteRejected(tpc[r], RawWriteError(chan[r]))]
    /\ tpc' = [tpc EXCEPT ![r] = PcAfterWriteRejected(@)]
    /\ ops' = [ops EXCEPT ![r] = @ \o IssuedAt(PcAfterWriteRejected(tpc[r]))]
    /\ resp' = [resp EXCEPT ![r] = [@ EXCEPT !.status = 500]]
    /\ UNCHANGED <<hpc, cfg, chan, tres, tracked>>
    /\ UNCHANGED auxVars
    /\ UNCHANGED pipeVars
    /\ UNCHANGED clientVars
    /\ UNCHANGED routerVars
    /\ sent' = [sent EXCEPT ![r] = @ \o
                  ChunksIssuedAt(PcAfterWriteRejected(tpc[r]), cfg[r],
                                 RawWriteError(chan[r]))]

TaskWriteReject(r) ==
    /\ tpc[r] \in WritePcs
    /\ WriterWriteOutcome(chan[r]) = "rejected"
    /\ rejected' = [rejected EXCEPT ![r] = @ \cup {WriteAt(tpc[r])}]
    /\ texc' = [texc EXCEPT ![r] =
                  PendingAfterWriteRejected(tpc[r], RawWriteError(chan[r]))]
    /\ tpc' = [tpc EXCEPT ![r] = PcAfterWriteRejected(@)]
    /\ ops' = [ops EXCEPT ![r] = @ \o IssuedAt(PcAfterWriteRejected(tpc[r]))]
    /\ UNCHANGED <<hpc, cfg, chan, tres, tracked, resp>>
    /\ UNCHANGED auxVars
    /\ UNCHANGED pipeVars
    /\ UNCHANGED clientVars
    /\ UNCHANGED routerVars
    /\ sent' = [sent EXCEPT ![r] = @ \o
                  ChunksIssuedAt(PcAfterWriteRejected(tpc[r]), cfg[r],
                                 RawWriteError(chan[r]))]

\* Mutant: the promise of the delay resolves without waiting for the timer.
TimerFired_Early(w, ms) == TRUE

\* setTimeout(resolve, ms): the callback runs once ms milliseconds have passed.
TimerFired(w, ms) == w >= ms

\* A request has a timer running while its task, or its non-streaming
\* handler, awaits simulateDungeonDelay.
TimerRunning(r) == IF tpc[r] = "delay" THEN TRUE ELSE hpc[r] = "nsDelay"

\* Time passes for a running timer that has not fired yet.
Tick(r) ==
    /\ TimerRunning(r)
    /\ ~TimerFired(waited[r], cfg[r].dungeonDelayMs)
    /\ waited' = [waited EXCEPT ![r] = @ + TickMs]
    /\ UNCHANGED <<hpc, cfg, tpc, chan, ops, rejected, texc, tres, tracked, resp,
                   page>>
    /\ UNCHANGED pipeVars
    /\ UNCHANGED clientVars
    /\ UNCHANGED routerVars
    /\ UNCHANGED sent

\* Mutant: the task clears the delay of its config once it has waited, in
\* the object it was given, which is the module's object by default.
TaskDelayElapsed_ClearsDelay(r) ==
    /\ tpc[r] = "delay"
    /\ TimerFired(waited[r], cfg[r].dungeonDelayMs)
    /\ tpc' = [tpc EXCEPT ![r] = "awaitBody"]
    /\ ops' = [ops EXCEPT ![r] = @ \o IssuedAt("awaitBody")]
    /\ cfg' = [cfg EXCEPT ![r] = [@ EXCEPT !.dungeonDelayMs = 0]]
    /\ defaultConfig' = IF cfg[r] = defaultConfig
                           THEN [defaultConfig EXCEPT !.dungeonDelayMs = 0]
                           ELSE defaultConfig
    /\ UNCHANGED <<hpc, chan, rejected, texc, tres, tracked, resp>>
    /\ UNCHANGED auxVars
    /\ sent' = [sent EXCEPT ![r] = @ \o ChunksIssuedAt("awaitBody", cfg[r], "none")]
    /\ UNCHANGED pipeVars
    /\ UNCHANGED clientVars
    /\ UNCHANGED <<rq, route>>

\* simulateDungeonDelay: the timer fires and the promise resolves; it never
\* rejects.  The task then issues the body write.
TaskDelayElapsed(r) ==
    /\ tpc[r] = "delay"
    /\ TimerFired(waited[r], cfg[r].dungeonDelayMs)
    /\ tpc' = [tpc EXCEPT ![r] = "awaitBody"]
    /\ ops' = [ops EXCEPT ![r] = @ \o IssuedAt("awaitBody")]
    /\ UNCHANGED <<hpc, cfg, chan, rejected, texc, tres, tracked, resp>>
    /\ UNCHANGED auxVars
    /\ UNCHANGED pipeVars
    /\ UNCHANGED clientVars
    /\ UNCHANGED routerVars
    /\ sent' = [sent EXCEPT ![r] = @ \o ChunksIssuedAt("awaitBody", cfg[r], "none")]

TaskCloseResolve(r) ==
    /\ tpc[r] = "awaitClose"
    /\ WriterCloseOutcome(chan[r]) = "ok"
    /\ chan' = [chan EXCEPT ![r] = Closed(@)]
    /\ tpc' = [tpc EXCEPT ![r] = "done"]
    /\ tres' = [tres EXCEPT ![r] = TaskResult(texc[r], "ok")]
    /\ UNCHANGED <<hpc, cfg, ops, rejected, texc, tracked, resp>>
    /\ UNCHANGED auxVars
    /\ UNCHANGED pipeVars
    /\ UNCHANGED clientVars
    /\ UNCHANGED routerVars
    /\ UNCHANGED sent

TaskCloseReject(r) ==
    /\ tpc[r] = "awaitClose"
    /\ WriterCloseOutcome(chan[r]) = "rejected"
    /\ rejected' = [rejected EXCEPT ![r] = @ \cup {"close"}]
    /\ texc' = [texc EXCEPT ![r] = "TypeError"]
    /\ tpc' = [tpc EXCEPT ![r] = "done"]
    /\ tres' = [tres EXCEPT ![r] = TaskResult(texc[r], "rejected")]
    /\ UNCHANGED <<hpc, cfg, chan, ops, tracked, resp>>
    /\ UNCHANGED auxVars
    /\ UNCHANGED pipeVars
    /\ UNCHANGED clientVars
    /\ UNCHANGED routerVars
    /\ UNCHANGED sent

----------------------------------------------------------------------------
\* handleStreamQuest

NoResponse == [status |-> 0, headers |-> {}]

\* Line 32: createStreamingPipeline(), with the config parameter bound.
HandlerCreate(r, config) ==
    /\ hpc[r] = "idle"
    /\ hpc' = [hpc EXCEPT ![r] = "created"]
    /\ cfg' = [cfg EXCEPT ![r] = config]
    /\ chan' = [chan EXCEPT ![r] = NewTransformStream]
    /\ UNCHANGED <<tpc, ops, rejected, texc, tres, tracked, resp>>
    /\ UNCHANGED auxVars
    /\ UNCHANGED pipeVars
    /\ UNCHANGED clientVars
    /\ UNCHANGED routerVars
    /\ UNCHANGED sent

\* Mutant: the task is scheduled for a later turn of the event loop, so the
\* call returns a promise before the head write is issued.
HandlerStartTask_HeadWriteDeferred(r) ==
    /\ hpc[r] = "created"
    /\ hpc' = [hpc EXCEPT ![r] = "started"]
    /\ tpc' = [tpc EXCEPT ![r] = "awaitHead"]
    /\ tres' = [tres EXCEPT ![r] = "pending"]
    /\ UNCHANGED <<cfg, chan, ops, rejected, texc, tracked, resp, sent>>
    /\ UNCHANGED auxVars
    /\ UNCHANGED pipeVars
    /\ UNCHANGED clientVars
    /\ UNCHANGED routerVars

\* Line 36, the argument: streamQuestContent(writer, config) runs up to its
\* first await, which issues the head write, and returns its promise.
HandlerStartTask(r) ==
    /\ hpc[r] = "created"
    /\ hpc' = [hpc EXCEPT ![r] = "started"]
    /\ tpc' = [tpc EXCEPT ![r] = "awaitHead"]
    /\ ops' = [ops EXCEPT ![r] = @ \o IssuedAt("awaitHead")]
    /\ tres' = [tres EXCEPT ![r] = "pending"]
    /\ UNCHANGED <<cfg, chan, rejected, texc, tracked, resp>>
    /\ UNCHANGED auxVars
    /\ UNCHANGED pipeVars
    /\ UNCHANGED clientVars
    /\ UNCHANGED routerVars
    /\ sent' = [sent EXCEPT ![r] = @ \o ChunksIssuedAt("awaitHead", cfg[r], "none")]

\* Mutant: the task is started but its promise is not given to ctx.waitUntil.
HandlerWaitUntil_NotTracked(r) ==
    /\ hpc[r] = "started"
    /\ hpc' = [hpc EXCEPT ![r] = "registered"]
    /\ UNCHANGED <<cfg, tpc, chan, ops, rejected, texc, tres, tracked, resp>>
    /\ UNCHANGED auxVars
    /\ UNCHANGED pipeVars
    /\ UNCHANGED clientVars
    /\ UNCHANGED routerVars
    /\ UNCHANGED sent

\* Line 36, the call: ctx.waitUntil(promise).
HandlerWaitUntil(r) ==
    /\ hpc[r] = "started"
    /\ hpc' = [hpc EXCEPT ![r] = "registered"]
    /\ tracked' = [tracked EXCEPT ![r] = TRUE]
    /\ UNCHANGED <<cfg, tpc, chan, ops, rejected, texc, tres, resp>>
    /\ UNCHANGED auxVars
    /\ UNCHANGED pipeVars
    /\ UNCHANGED clientVars
    /\ UNCHANGED routerVars
    /\ UNCHANGED sent

\* Mutant: the handler awaits the streaming task before it builds the Response.
HandlerReturn_AwaitsTask(r) ==
    /\ hpc[r] = "registered"
    /\ tpc[r] = "done"
    /\ hpc' = [hpc EXCEPT ![r] = "returned"]
    /\ resp' = [resp EXCEPT ![r] = [status |-> 200, headers |-> RESPONSE_HEADERS]]
    /\ UNCHANGED <<cfg, tpc, chan, ops, rejected, texc, tres, tracked>>
    /\ UNCHANGED auxVars
    /\ UNCHANGED pipeVars
    /\ UNCHANGED clientVars
    /\ UNCHANGED routerVars
    /\ UNCHANGED sent

\* Lines 38-40: new Response(readable, {headers: RESPONSE_HEADERS}).
HandlerReturn(r) ==
    /\ hpc[r] = "registered"
    /\ hpc' = [hpc EXCEPT ![r] = "returned"]
    /\ resp' = [resp EXCEPT ![r] = [status |-> 200, headers |-> RESPONSE_HEADERS]]
    /\ UNCHANGED <<cfg, tpc, chan, ops, rejected, texc, tres, tracked>>
    /\ UNCHANGED auxVars
    /\ UNCHANGED pipeVars
    /\ UNCHANGED clientVars
    /\ UNCHANGED routerVars
    /\ UNCHANGED sent

----------------------------------------------------------------------------
\* handleNoStreamQuest

NO_STREAM_HEADERS ==
    { <<"Content-Type", "text/html; charset=utf-8">>,
      <<"X-Content-Type-Options", "nosniff">>,
      <<"Cache-Control", "no-store">> }

NoPage == [kind |-> "none", delay |-> 0, dbTime |-> 0, closesDoc |-> FALSE]

\* One document from <!DOCTYPE html> to </html>, with the measured wait.
generateFullPageHTML(config, dbTime) ==
    [kind |-> "full", delay |-> config.dungeonDelayMs, dbTime |-> dbTime,
     closesDoc |-> TRUE]

\* Lines 24-41: startTime is taken and the delay is awaited.
NoStreamStart(r, config) ==
    /\ hpc[r] = "idle"
    /\ hpc' = [hpc EXCEPT ![r] = "nsDelay"]
    /\ cfg' = [cfg EXCEPT ![r] = config]
    /\ UNCHANGED <<tpc, chan, ops, rejected, texc, tres, tracked, resp>>
    /\ UNCHANGED auxVars
    /\ UNCHANGED pipeVars
    /\ UNCHANGED clientVars
    /\ UNCHANGED routerVars
    /\ UNCHANGED sent

\* Mutant: the await in front of simulateDungeonDelay is missing.
NoStreamReturn_DelayNotAwaited(r) ==
    /\ hpc[r] = "nsDelay"
    /\ hpc' = [hpc EXCEPT ![r] = "nsReturned"]
    /\ page' = [page EXCEPT ![r] = generateFullPageHTML(cfg[r], waited[r])]
    /\ resp' = [resp EXCEPT ![r] = [status |-> 200, headers |-> NO_STREAM_HEADERS]]
    /\ UNCHANGED <<cfg, tpc, chan, ops, rejected, texc, tres, tracked, waited>>
    /\ UNCHANGED pipeVars
    /\ UNCHANGED clientVars
    /\ UNCHANGED routerVars
    /\ UNCHANGED sent

\* Lines 42-55: dbTime = Date.now() - startTime, the page is generated and
\* the Response is built around the whole string.
NoStreamReturn(r) ==
    /\ hpc[r] = "nsDelay"
    /\ TimerFired(waited[r], cfg[r].dungeonDelayMs)
    /\ hpc' = [hpc EXCEPT ![r] = "nsReturned"]
    /\ page' = [page EXCEPT ![r] = generateFullPageHTML(cfg[r], waited[r])]
    /\ resp' = [resp EXCEPT ![r] = [status |-> 200, headers |-> NO_STREAM_HEADERS]]
    /\ UNCHANGED <<cfg, tpc, chan, ops, rejected, texc, tres, tracked, waited>>
    /\ UNCHANGED pipeVars
    /\ UNCHANGED clientVars
    /\ UNCHANGED routerVars
    /\ UNCHANGED sent

----------------------------------------------------------------------------
\* The transport that owns the readable end once the Response is returned

ConsumerRead(r) ==
    /\ hpc[r] = "returned"
    /\ CanRead(chan[r])
    /\ chan' = [chan EXCEPT ![r] = Read(@)]
    /\ UNCHANGED <<hpc, cfg, tpc, ops, rejected, texc, tres, tracked, resp>>
    /\ UNCHANGED auxVars
    /\ UNCHANGED pipeVars
    /\ UNCHANGED clientVars
    /\ UNCHANGED routerVars
    /\ UNCHANGED sent

\* The client goes away: the transport cancels the body stream.
ConsumerCancel(r, reason) ==
    /\ hpc[r] = "returned"
    /\ chan[r].r = "readable"
    /\ chan' = [chan EXCEPT ![r] = Cancel(@, reason)]
    /\ UNCHANGED <<hpc, cfg, tpc, ops, rejected, texc, tres, tracked, resp>>
    /\ UNCHANGED auxVars
    /\ UNCHANGED pipeVars
    /\ UNCHANGED clientVars
    /\ UNCHANGED routerVars
    /\ UNCHANGED sent

----------------------------------------------------------------------------
\* The router: fetch of src/src/index.ts

\* config: QuestConfig = DEFAULT_QUEST_CONFIG.  The parameter is the
\* argument when the caller passes one, and the module's object otherwise.
ConfigParam(args) == IF Len(args) >= 1 THEN args[1] ELSE defaultConfig

\* The pathnames requests arrive with: the four routes, the root and a
\* path that differs from a route by a trailing slash.
Paths == {"/quest", "/quest/no-stream", "/compare", "/api/config", "/", "/quest/"}

\* The parts of a request besides its pathname.
PlainParts ==
    [method |-> "GET", search |-> "", headers |-> {}, body |-> ""]

LoadedParts ==
    [method |-> "POST", search |-> "?dungeonDelayMs=0",
     headers |-> {<<"X-Dungeon-Delay", "0">>}, body |-> "dungeonDelayMs=0"]

RequestParts == {PlainParts, LoadedParts}

Requests ==
    { [url |-> [pathname |-> p, search |-> x.search], method |-> x.method,
       headers |-> x.headers, body |-> x.body] : p \in Paths, x \in RequestParts }

\* env.ASSETS is optional (types.ts 13-15): a deployment has the asset
\* binding or lacks it.
Envs == { [ASSETS |-> b] : b \in BOOLEAN }

NoRequest ==
    [url |-> [pathname |-> "", search |-> ""], method |-> "",
     headers |-> {}, body |-> ""]

\* new URL(request.url).pathname: the path of the URL, without the query.
Pathname(url) == url.pathname

\* Mutant: the root path shows the comparison page.
RouteOf_RootIsCompare(request, bindings) ==
    IF Pathname(request.url) = "/quest" THEN "stream"
    ELSE IF Pathname(request.url) = "/quest/no-stream" THEN "noStream"
    ELSE IF Pathname(request.url) \in {"/compare", "/"} THEN "compare"
    ELSE IF Pathname(request.url) = "/api/config" THEN "config"
    ELSE IF bindings.ASSETS THEN "assets" ELSE "notFound"

\* Lines 40-74: the chain of path === comparisons, then
\* env.ASSETS?.fetch(request) ?? new Response('Not Found', { status: 404 }).
RouteOf(request, bindings) ==
    IF Pathname(request.url) = "/quest" THEN "stream"
    ELSE IF Pathname(request.url) = "/quest/no-stream" THEN "noStream"
    ELSE IF Pathname(request.url) = "/compare" THEN "compare"
    ELSE IF Pathname(request.url) = "/api/config" THEN "config"
    ELSE IF bindings.ASSETS THEN "assets" ELSE "notFound"

\* No Response built by the router itself: the branch hands the request to
\* a handler or to the asset binding, or no branch is taken yet.
NoRouterResponse == [status |-> 0, headers |-> {}, text |-> "", config |-> <<>>]

\* Mutant: /api/config reports the delay in seconds.
RouterResponse_ConfigInSeconds(to) ==
    CASE to = "compare" ->
            [status |-> 200,
             headers |-> {<<"Content-Type", "text/html; charset=utf-8">>},
             text |-> "getComparisonHTML", config |-> <<>>]
      [] to = "config" ->
            [status |-> 200,
             headers |-> {<<"Content-Type", "application/json">>},
             text |-> "The Great Streaming Quest",
             config |-> <<[dungeonDelayMs |-> 2, armorDownloadMs |-> 800]>>]
      [] to = "notFound" ->
            [status |-> 404, headers |-> {}, text |-> "Not Found", config |-> <<>>]
      [] OTHER -> NoRouterResponse

\* The Responses the router builds itself: the comparison page (lines
\* 50-54), the configuration JSON (lines 57-70), 'Not Found' (line 74).
RouterResponse(to) ==
    CASE to = "compare" ->
            [status |-> 200,
             headers |-> {<<"Content-Type", "text/html; charset=utf-8">>},
             text |-> "getComparisonHTML", config |-> <<>>]
      [] to = "config" ->
            [status |-> 200,
             headers |-> {<<"Content-Type", "application/json">>},
             text |-> "The Great Streaming Quest", config |-> <<defaultConfig>>]
      [] to = "notFound" ->
            [status |-> 404, headers |-> {}, text |-> "Not Found", config |-> <<>>]
      [] OTHER -> NoRouterResponse

\* What a fetch has found in env.ASSETS; the branches that return before
\* the last line do not read it.
AssetsRead(to, bindings) ==
    IF to \in {"assets", "notFound"}
    THEN (IF bindings.ASSETS THEN "present" ELSE "absent")
    ELSE "unread"

NoRoute == [to |-> "none", res |-> NoRouterResponse, assets |-> "unread"]

\* fetch(request, env, ctx): the pathname is taken from the URL and one
\* branch is chosen.
RouterFetch(r, request, bindings) ==
    /\ hpc[r] = "idle"
    /\ route[r] = NoRoute
    /\ rq' = [rq EXCEPT ![r] = request]
    /\ route' = [route EXCEPT ![r] =
                    [to |-> RouteOf(request, bindings),
                     res |-> RouterResponse(RouteOf(request, bindings)),
                     assets |-> AssetsRead(RouteOf(request, bindings), bindings)]]
    /\ UNCHANGED <<hpc, cfg, tpc, chan, ops, rejected, texc, tres, tracked, resp,
                   waited, page, defaultConfig, sent>>
    /\ UNCHANGED pipeVars
    /\ UNCHANGED clientVars

\* Mutant: the router takes the delay from the query string and passes it on.
RouterCallStream_ConfigFromQuery(r) ==
    /\ route[r].to = "stream"
    /\ HandlerCreate(r, ConfigParam(
           IF rq[r].url.search = "?dungeonDelayMs=0"
           THEN <<[dungeonDelayMs |-> 0, armorDownloadMs |-> 800]>>
           ELSE <<>>))

\* Line 41: return handleStreamQuest(request, env, ctx), no config passed.
RouterCallStream(r) ==
    /\ route[r].to = "stream"
    /\ HandlerCreate(r, ConfigParam(<<>>))

\* Line 46: return handleNoStreamQuest(request, env, ctx), no config passed.
RouterCallNoStream(r) ==
    /\ route[r].to = "noStream"
    /\ NoStreamStart(r, ConfigParam(<<>>))

\* The request is over: its Response was built by the router, or its
\* handler has returned and its streaming task has ended.
RequestOver(r) ==
    \/ route[r].to \in {"compare", "config", "assets", "notFound"}
    \/ route[r].to = "stream" /\ hpc[r] = "returned" /\ tpc[r] = "done"
    \/ route[r].to = "noStream" /\ hpc[r] = "nsReturned"

\* The runtime drops what it held for a request that is over; the next
\* request finds nothing of it but the module's state.
RequestDone(r) ==
    /\ RequestOver(r)
    /\ hpc' = [hpc EXCEPT ![r] = "idle"]
    /\ cfg' = [cfg EXCEPT ![r] = DEFAULT_QUEST_CONFIG]
    /\ tpc' = [tpc EXCEPT ![r] = "notStarted"]
    /\ chan' = [chan EXCEPT ![r] = NewTransformStream]
    /\ ops' = [ops EXCEPT ![r] = <<>>]
    /\ rejected' = [rejected EXCEPT ![r] = {}]
    /\ texc' = [texc EXCEPT ![r] = "none"]
    /\ tres' = [tres EXCEPT ![r] = "none"]
    /\ tracked' = [tracked EXCEPT ![r] = FALSE]
    /\ resp' = [resp EXCEPT ![r] = NoResponse]
    /\ waited' = [waited EXCEPT ![r] = 0]
    /\ page' = [page EXCEPT ![r] = NoPage]
    /\ rq' = [rq EXCEPT ![r] = NoRequest]
    /\ route' = [route EXCEPT ![r] = NoRoute]
    /\ sent' = [sent EXCEPT ![r] = <<>>]
    /\ UNCHANGED defaultConfig
    /\ UNCHANGED pipeVars
    /\ UNCHANGED clientVars

----------------------------------------------------------------------------
\* SpecPipe: a caller of createStreamingPipeline

NoCall == [op |-> "none", chunk |-> encodeChunk(generateErrorChunk(""))]

PipeChunks ==
    { encodeChunk(generateHeadChunk(DEFAULT_QUEST_CONFIG)),
      encodeChunk(generateBodyChunk(DEFAULT_QUEST_CONFIG)) }

Calls == Len(plog) + (IF pcall = NoCall THEN 0 ELSE 1)

PipeCallWrite(chunk) ==
    /\ pcall = NoCall
    /\ Calls < MaxCalls
    /\ pcall' = [op |-> "write", chunk |-> chunk]
    /\ UNCHANGED <<pipe, plog>>
    /\ UNCHANGED reqVars
    /\ UNCHANGED clientVars

PipeCallClose ==
    /\ pcall = NoCall
    /\ Calls < MaxCalls
    /\ pcall' = [op |-> "close", chunk |-> NoCall.chunk]
    /\ UNCHANGED <<pipe, plog>>
    /\ UNCHANGED reqVars
    /\ UNCHANGED clientVars

Settled(call, outcome) == [op |-> call.op, chunk |-> call.chunk, res |-> outcome]

PipeWriteResolve ==
    /\ pcall.op = "write"
    /\ WriterWriteOutcome(pipe) = "ok"
    /\ pipe' = Deliver(pipe, pcall.chunk)
    /\ plog' = Append(plog, Settled(pcall, "ok"))
    /\ pcall' = NoCall
    /\ UNCHANGED reqVars
    /\ UNCHANGED clientVars

PipeWriteReject ==
    /\ pcall.op = "write"
    /\ WriterWriteOutcome(pipe) = "rejected"
    /\ plog' = Append(plog, Settled(pcall, "rejected"))
    /\ pcall' = NoCall
    /\ UNCHANGED pipe
    /\ UNCHANGED reqVars
    /\ UNCHANGED clientVars

PipeCloseResolve ==
    /\ pcall.op = "close"
    /\ WriterCloseOutcome(pipe) = "ok"
    /\ pipe' = Closed(pipe)
    /\ plog' = Append(plog, Settled(pcall, "ok"))
    /\ pcall' = NoCall
    /\ UNCHANGED reqVars
    /\ UNCHANGED clientVars

PipeCloseReject ==
    /\ pcall.op = "close"
    /\ WriterCloseOutcome(pipe) = "rejected"
    /\ plog' = Append(plog, Settled(pcall, "rejected"))
    /\ pcall' = NoCall
    /\ UNCHANGED pipe
    /\ UNCHANGED reqVars
    /\ UNCHANGED clientVars

PipeRead ==
    /\ CanRead(pipe)
    /\ pipe' = Read(pipe)
    /\ UNCHANGED <<pcall, plog>>
    /\ UNCHANGED reqVars
    /\ UNCHANGED clientVars

PipeCancel(reason) ==
    /\ pipe.r = "readable"
    /\ pipe' = Cancel(pipe, reason)
    /\ UNCHANGED <<pcall, plog>>
    /\ UNCHANGED reqVars
    /\ UNCHANGED clientVars

----------------------------------------------------------------------------
\* The comparison page: the script of getComparisonHTML (index.ts 590-782)

CONFIG == [serverDelay |-> 2000, assetDelay |-> 800, maxTime |-> 3000]

StatusIds == {"s1", "s2", "s3", "s4", "s5", "s6",
              "t1", "t2", "t3", "t4", "t5", "t6"}

BarIds == {"stream-server", "stream-css", "stream-js", "stream-body",
           "trad-wait", "trad-css", "trad-js", "trad-body"}

\* The text of a result field: '--', or a number of milliseconds and 'ms'.
Dash == [dash |-> TRUE, ms |-> 0]
MsText(n) == [dash |-> FALSE, ms |-> n]

\* let startTime = null, or a reading of performance.now().
NullTime == [isNull |-> TRUE, ms |-> 0]
TimeAt(n) == [isNull |-> FALSE, ms |-> n]

\* performance.now() - startTime: null converts to 0.
Since(start, t) == IF start.isNull THEN t ELSE t - start.ms

\* parseInt of a result text: NaN for '--'.
ParseInt(text) == [nan |-> text.dash, n |-> text.ms]
Minus(a, b) == [nan |-> a.nan \/ b.nan, n |-> IF a.nan \/ b.nan THEN 0 ELSE a.n - b.n]

\* The markup of the page (index.ts 446-584): timer 0ms, results and
\* time-saved hidden, both results '--', no status item active or done,
\* all bars at width 0.
InitialDom ==
    [globalTimer |-> 0, resultsHidden |-> TRUE, timeSavedHidden |-> TRUE,
     saved |-> ParseInt(Dash), resultStream |-> Dash, resultTrad |-> Dash,
     status |-> [id \in StatusIds |-> "none"],
     bars |-> [id \in BarIds |-> "zero"]]

\* setStatus(id, state): both classes are removed, then state is added.
setStatus(d, id, state) == [d EXCEPT !.status[id] = state]

\* animateBar(barId, ...): the bar starts to grow.  The animation frames
\* that follow are not followed one by one.
animateBar(d, barId) == [d EXCEPT !.bars[barId] = "animating"]

\* Lines 731-736: the flags are raised from the result texts.
DoneAfterCheck(done, text) == IF text # Dash THEN TRUE ELSE done

\* Lines 738-748: with both flags raised the results panel and the
\* time-saved line are shown.
checkRaceComplete(d, sd, td) ==
    IF DoneAfterCheck(sd, d.resultStream) /\ DoneAfterCheck(td, d.resultTrad)
    THEN [d EXCEPT !.resultsHidden = FALSE, !.timeSavedHidden = FALSE,
                   !.saved = Minus(ParseInt(d.resultTrad), ParseInt(d.resultStream))]
    ELSE d

\* The callbacks simulateStreaming and simulateTraditional pass to
\* setTimeout, and their delays.
Callbacks ==
    { [cb |-> "streamHead",   delay |-> 50],
      [cb |-> "streamAssets", delay |-> 50 + CONFIG.assetDelay],
      [cb |-> "streamBody",   delay |-> 50 + CONFIG.serverDelay],
      [cb |-> "tradWaiting",  delay |-> 100],
      [cb |-> "tradStill",    delay |-> CONFIG.serverDelay \div 2],
      [cb |-> "tradHtml",     delay |-> CONFIG.serverDelay],
      [cb |-> "tradAssets",   delay |-> CONFIG.serverDelay + CONFIG.assetDelay] }

\* What a callback writes to the page when it runs; total is
\* Math.floor(performance.now() - startTime).
DomAfterCallback(cb, d, total) ==
    CASE cb = "streamHead" ->
            animateBar(animateBar(animateBar(
                setStatus(setStatus(setStatus(setStatus(d,
                    "s1", "done"), "s2", "done"), "s3", "active"), "s4", "active"),
                "stream-css"), "stream-js"), "stream-server")
      [] cb = "streamAssets" ->
            setStatus(setStatus(d, "s3", "done"), "s5", "done")
      [] cb = "streamBody" ->
            [animateBar(setStatus(setStatus(d, "s4", "done"), "s6", "done"),
                        "stream-body")
                EXCEPT !.resultStream = MsText(total)]
      [] cb = "tradWaiting" ->
            setStatus(setStatus(d, "t1", "done"), "t2", "active")
      [] cb = "tradStill" ->
            setStatus(setStatus(d, "t2", "done"), "t3", "active")
      [] cb = "tradHtml" ->
            animateBar(animateBar(
                setStatus(setStatus(setStatus(d,
                    "t3", "done"), "t4", "done"), "t5", "active"),
                "trad-css"), "trad-js")
      [] cb = "tradAssets" ->
            [animateBar(setStatus(setStatus(d, "t5", "done"), "t6", "done"),
                        "trad-body")
                EXCEPT !.resultTrad = MsText(total)]

\* The two callbacks that end with checkRaceComplete().
ChecksRace(cb) == cb \in {"streamBody", "tradAssets"}

\* Lines 757-780 of resetRace: what it writes to the page.
ResetDom(d) ==
    [d EXCEPT !.globalTimer = 0, !.resultsHidden = TRUE, !.timeSavedHidden = TRUE,
              !.resultStream = Dash, !.resultTrad = Dash,
              !.status = [id \in StatusIds |-> "none"],
              !.bars = [id \in BarIds |-> "zero"]]

\* A pending timeout runs when its time has come and no other pending
\* timeout was due before it.
Due(t) == t.due <= now /\ \A u \in timeouts : u.due >= t.due

\* The Reset button: resetRace().  clearInterval stops updateTimer; the
\* timeouts of a race in progress are not cleared.
ClickReset ==
    /\ Len(clicks) < MaxClicks
    /\ clicks' = Append(clicks, "reset")
    /\ raceInterval' = FALSE
    /\ startTime' = NullTime
    /\ streamDone' = FALSE
    /\ tradDone' = FALSE
    /\ dom' = ResetDom(dom)
    /\ UNCHANGED <<timeouts, now>>
    /\ UNCHANGED loggerVars
    /\ UNCHANGED serverVars

\* The Start button: startRace() calls resetRace(), takes the time, starts
\* the interval, and simulateStreaming() and simulateTraditional() mark the
\* first steps and schedule their timeouts.
ClickStart ==
    /\ Len(clicks) < MaxClicks
    /\ clicks' = Append(clicks, "start")
    /\ startTime' = TimeAt(now)
    /\ raceInterval' = TRUE
    /\ streamDone' = FALSE
    /\ tradDone' = FALSE
    /\ dom' = animateBar(setStatus(setStatus(ResetDom(dom),
                  "s1", "active"), "t1", "active"), "trad-wait")
    /\ timeouts' = timeouts \cup
                     { [cb |-> c.cb, due |-> now + c.delay] : c \in Callbacks }
    /\ UNCHANGED now
    /\ UNCHANGED loggerVars
    /\ UNCHANGED serverVars

\* A timeout fires and its callback runs to the end.
FireTimeout(t) ==
    /\ t \in timeouts
    /\ Due(t)
    /\ timeouts' = timeouts \ {t}
    /\ dom' = IF ChecksRace(t.cb)
              THEN checkRaceComplete(
                       DomAfterCallback(t.cb, dom, Since(startTime, now)),
                       streamDone, tradDone)
              ELSE DomAfterCallback(t.cb, dom, Since(startTime, now))
    /\ streamDone' = IF ChecksRace(t.cb)
                     THEN DoneAfterCheck(streamDone,
                              DomAfterCallback(t.cb, dom, Since(startTime, now)).resultStream)
                     ELSE streamDone
    /\ tradDone' = IF ChecksRace(t.cb)
                   THEN DoneAfterCheck(tradDone,
                            DomAfterCallback(t.cb, dom, Since(startTime, now)).resultTrad)
                   ELSE tradDone
    /\ UNCHANGED <<raceInterval, startTime, now, clicks>>
    /\ UNCHANGED loggerVars
    /\ UNCHANGED serverVars

\* updateTimer, run by the interval: the timer shows the elapsed time, and
\* the interval is cleared once the race is over by 500 ms.
updateTimer ==
    /\ raceInterval
    /\ \/ dom.globalTimer # Since(startTime, now)
       \/ Since(startTime, now) > CONFIG.maxTime + 500
    /\ dom' = [dom EXCEPT !.globalTimer = Since(startTime, now)]
    /\ raceInterval' = IF Since(startTime, now) > CONFIG.maxTime + 500
                       THEN FALSE ELSE raceInterval
    /\ UNCHANGED <<startTime, streamDone, tradDone, timeouts, now, clicks>>
    /\ UNCHANGED loggerVars
    /\ UNCHANGED serverVars

\* Time passes on the page while something is scheduled and nothing is due.
RaceTick ==
    /\ timeouts # {} \/ raceInterval
    /\ \A t \in timeouts : t.due > now
    /\ raceInterval => dom.globalTimer = Since(startTime, now)
    /\ now' = now + RaceTickMs
    /\ UNCHANGED <<raceInterval, startTime, streamDone, tradDone, timeouts, dom,
                   clicks>>
    /\ UNCHANGED loggerVars
    /\ UNCHANGED serverVars

InitRace ==
    /\ raceInterval = FALSE
    /\ startTime = NullTime
    /\ streamDone = FALSE
    /\ tradDone = FALSE
    /\ timeouts = {}
    /\ now = 0
    /\ dom = InitialDom
    /\ clicks = <<>>

NextRace ==
    \/ ClickStart
    \/ ClickReset
    \/ \E t \in timeouts : FireTimeout(t)
    \/ updateTimer
    \/ RaceTick

----------------------------------------------------------------------------
\* The quest logger: quest.js, loaded by the head chunk
\* (html-templates.ts 42-48)

\* The stylesheet links of the head chunk whose onload calls onCssLoaded.
Links == 1..NumLinks

\* A value is falsy when it is null or the number 0.
Falsy(t) == t.isNull \/ t.ms = 0

\* logToQuest: an entry is appended when #quest-entries exists; without the
\* element the message is dropped with a warning.
logToQuest(container, actor, message, t) ==
    IF container.present
    THEN [container EXCEPT !.entries =
              Append(@, [actor |-> actor, message |-> message, at |-> t])]
    ELSE container

\* Mutant: the check does not look at armorEquippedTime.
checkArmorEquipped_NoOnceGuard(st, t) ==
    IF st.qs.cssLoaded /\ st.qs.jsLoaded
    THEN [qs   |-> [st.qs EXCEPT !.armorEquippedTime = TimeAt(t)],
          log  |-> logToQuest(st.log, "Hero", "Heavy Armor fully equipped", t),
          sets |-> st.sets + 1]
    ELSE st

\* checkArmorEquipped at elapsed time t, on the state of the logger: the
\* questState, the log container and the count of assignments.
checkArmorEquipped(st, t) ==
    IF st.qs.cssLoaded /\ st.qs.jsLoaded /\ Falsy(st.qs.armorEquippedTime)
    THEN [qs   |-> [st.qs EXCEPT !.armorEquippedTime = TimeAt(t)],
          log  |-> logToQuest(st.log, "Hero", "Heavy Armor fully equipped", t),
          sets |-> st.sets + 1]
    ELSE st

onCssLoaded(st, t) == checkArmorEquipped([st EXCEPT !.qs.cssLoaded = TRUE], t)

onJsLoaded(st, t) == checkArmorEquipped([st EXCEPT !.qs.jsLoaded = TRUE], t)

LoggerState == [qs |-> questState, log |-> questEntries, sets |-> armorSets]

\* quest.js runs: questState is created with startTime = performance.now(),
\* window.QuestLogger is set and onJsLoaded is scheduled.
ScriptRuns ==
    /\ ~loader.installed
    /\ loader' = [loader EXCEPT !.installed = TRUE, !.jsTimer = "pending"]
    /\ elapsed' = 0
    /\ UNCHANGED <<questState, questEntries, armorSets>>
    /\ UNCHANGED raceVars
    /\ UNCHANGED serverVars

\* The parser, which waits for the script, reaches <div id="quest-entries">.
ContainerParsed ==
    /\ loader.installed
    /\ ~questEntries.present
    /\ questEntries' = [questEntries EXCEPT !.present = TRUE]
    /\ UNCHANGED <<questState, loader, elapsed, armorSets>>
    /\ UNCHANGED raceVars
    /\ UNCHANGED serverVars

\* onload of a stylesheet link: if(window.QuestLogger) QuestLogger.onCssLoaded().
LinkLoaded(i) ==
    /\ loader.links[i] = "loading"
    /\ loader' = [loader EXCEPT !.links[i] =
                     IF loader.installed THEN "called" ELSE "skipped"]
    /\ questState' = IF loader.installed
                     THEN onCssLoaded(LoggerState, elapsed).qs ELSE questState
    /\ questEntries' = IF loader.installed
                       THEN onCssLoaded(LoggerState, elapsed).log ELSE questEntries
    /\ armorSets' = IF loader.installed
                    THEN onCssLoaded(LoggerState, elapsed).sets ELSE armorSets
    /\ UNCHANGED elapsed
    /\ UNCHANGED raceVars
    /\ UNCHANGED serverVars

\* setTimeout(() => { onJsLoaded(); }, 100) fires.
JsTimerFires ==
    /\ loader.jsTimer = "pending"
    /\ elapsed >= JsLoadedDelayMs
    /\ loader' = [loader EXCEPT !.jsTimer = "fired"]
    /\ questState' = onJsLoaded(LoggerState, elapsed).qs
    /\ questEntries' = onJsLoaded(LoggerState, elapsed).log
    /\ armorSets' = onJsLoaded(LoggerState, elapsed).sets
    /\ UNCHANGED elapsed
    /\ UNCHANGED raceVars
    /\ UNCHANGED serverVars

\* Time passes on the page once the logger has taken its startTime.
LoggerTick ==
    /\ loader.installed
    /\ elapsed < MaxElapsedMs
    /\ elapsed' = elapsed + LoggerTickMs
    /\ UNCHANGED <<questState, questEntries, loader, armorSets>>
    /\ UNCHANGED raceVars
    /\ UNCHANGED serverVars

InitLogger ==
    /\ questState = [cssLoaded |-> FALSE, jsLoaded |-> FALSE,
                     armorEquippedTime |-> NullTime]
    /\ questEntries = [present |-> FALSE, entries |-> <<>>]
    /\ loader = [installed |-> FALSE, jsTimer |-> "none",
                 links |-> [i \in Links |-> "loading"]]
    /\ elapsed = 0
    /\ armorSets = 0

NextLogger ==
    \/ ScriptRuns
    \/ ContainerParsed
    \/ \E i \in Links : LinkLoaded(i)
    \/ JsTimerFires
    \/ LoggerTick

----------------------------------------------------------------------------
\* Specifications

\* The state of the module after it is loaded, before any request.
InitModule ==
    /\ hpc = [r \in Reqs |-> "idle"]
    /\ cfg = [r \in Reqs |-> DEFAULT_QUEST_CONFIG]
    /\ tpc = [r \in Reqs |-> "notStarted"]
    /\ chan = [r \in Reqs |-> NewTransformStream]
    /\ ops = [r \in Reqs |-> <<>>]
    /\ rejected = [r \in Reqs |-> {}]
    /\ sent = [r \in Reqs |-> <<>>]
    /\ texc = [r \in Reqs |-> "none"]
    /\ tres = [r \in Reqs |-> "none"]
    /\ tracked = [r \in Reqs |-> FALSE]
    /\ resp = [r \in Reqs |-> NoResponse]
    /\ waited = [r \in Reqs |-> 0]
    /\ page = [r \in Reqs |-> NoPage]
    /\ rq = [r \in Reqs |-> NoRequest]
    /\ route = [r \in Reqs |-> NoRoute]
    /\ defaultConfig = DEFAULT_QUEST_CONFIG
    /\ pipe = NewTransformStream
    /\ pcall = NoCall
    /\ plog = <<>>
    /\ InitRace
    /\ InitLogger

\* No request has arrived.
Init == InitModule

Next ==
    \/ \E r \in Reqs, config \in Configs : HandlerCreate(r, config)
    \/ \E r \in Reqs : HandlerStartTask(r)
    \/ \E r \in Reqs : HandlerWaitUntil(r)
    \/ \E r \in Reqs : HandlerReturn(r)
    \/ \E r \in Reqs : TaskWriteResolve(r)
    \/ \E r \in Reqs : TaskWriteReject(r)
    \/ \E r \in Reqs : Tick(r)
    \/ \E r \in Reqs : TaskDelayElapsed(r)
    \/ \E r \in Reqs : TaskCloseResolve(r)
    \/ \E r \in Reqs : TaskCloseReject(r)
    \/ \E r \in Reqs : ConsumerRead(r)
    \/ \E r \in Reqs, reason \in CancelReasons : ConsumerCancel(r, reason)
    \/ \E r \in Reqs, config \in Configs : NoStreamStart(r, config)
    \/ \E r \in Reqs : NoStreamReturn(r)

Spec == Init /\ [][Next]_vars

\* Requests arrive through the router, which passes no config.
NextRouter ==
    \/ \E r \in Reqs, request \in Requests, bindings \in Envs :
          RouterFetch(r, request, bindings)
    \/ \E r \in Reqs : RouterCallStream(r)
    \/ \E r \in Reqs : RouterCallNoStream(r)
    \/ \E r \in Reqs : HandlerStartTask(r)
    \/ \E r \in Reqs : HandlerWaitUntil(r)
    \/ \E r \in Reqs : HandlerReturn(r)
    \/ \E r \in Reqs : TaskWriteResolve(r)
    \/ \E r \in Reqs : TaskWriteReject(r)
    \/ \E r \in Reqs : Tick(r)
    \/ \E r \in Reqs : TaskDelayElapsed(r)
    \/ \E r \in Reqs : TaskCloseResolve(r)
    \/ \E r \in Reqs : TaskCloseReject(r)
    \/ \E r \in Reqs : ConsumerRead(r)
    \/ \E r \in Reqs, reason \in CancelReasons : ConsumerCancel(r, reason)
    \/ \E r \in Reqs : NoStreamReturn(r)
    \/ \E r \in Reqs : RequestDone(r)

SpecRouter == Init /\ [][NextRouter]_vars

NextPipe ==
    \/ \E chunk \in PipeChunks : PipeCallWrite(chunk)
    \/ PipeCallClose
    \/ PipeWriteResolve
    \/ PipeWriteReject
    \/ PipeCloseResolve
    \/ PipeCloseReject
    \/ PipeRead
    \/ \E reason \in CancelReasons : PipeCancel(reason)

\* The fairness the runtime gives a request: the handler's synchronous code
\* runs on, settled promises resume the task, a running timer advances and
\* fires, and the transport keeps reading the body it was given.
Fairness ==
    \A r \in Reqs :
        /\ WF_vars(HandlerStartTask(r))
        /\ WF_vars(HandlerWaitUntil(r))
        /\ WF_vars(HandlerReturn(r))
        /\ WF_vars(TaskWriteResolve(r))
        /\ WF_vars(TaskWriteReject(r))
        /\ WF_vars(Tick(r))
        /\ WF_vars(TaskDelayElapsed(r))
        /\ WF_vars(TaskCloseResolve(r))
        /\ WF_vars(TaskCloseReject(r))
        /\ WF_vars(ConsumerRead(r))

SpecLive == Init /\ [][Next]_vars /\ Fairness

SpecPipe == Init /\ [][NextPipe]_vars

\* The comparison page with a user at its two buttons.
SpecRace == Init /\ [][NextRace]_vars

\* The page of the head chunk loading quest.js and its stylesheets.
SpecLogger == Init /\ [][NextLogger]_vars

----------------------------------------------------------------------------
\* Helpers of the properties

Range(s) == { s[i] : i \in DOMAIN s }

IsPrefix(s, t) == Len(s) <= Len(t) /\ \A i \in DOMAIN s : s[i] = t[i]

CountOf(s, x) == Cardinality({ i \in DOMAIN s : s[i] = x })

\* The kinds of the chunks the consumer has received, in order.
Kinds(ch) == [ i \in DOMAIN ch.out |-> ch.out[i].text.kind ]

HappyOps == <<"write_head", "delay", "write_body", "close">>
BodyFailureOps == <<"write_head", "delay", "write_body", "write_error", "close">>
HeadFailureOps == <<"write_head", "write_error", "close">>

----------------------------------------------------------------------------
\* C1: in every run of streamQuestContent, whatever rejects, close() is
\* invoked exactly once (never twice, and once by the time the task is over),
\* and it is the last operation issued on the channel: no write follows it.
C1_CloseExactlyOnce ==
    \A r \in Reqs :
        /\ CountOf(ops[r], "close") <= 1
        /\ tpc[r] = "done" => CountOf(ops[r], "close") = 1
        /\ "close" \in Range(ops[r]) => ops[r][Len(ops[r])] = "close"

\* A run in which the body write threw has finished, closed once.
C1_Witness ==
    \E r \in Reqs :
        /\ tpc[r] = "done"
        /\ "write_body" \in rejected[r]
        /\ CountOf(ops[r], "close") = 1

\* C2: the consumer never receives a body or an error chunk before the head
\* chunk, and once it has seen the end of the stream (which takes a close
\* issued by the task) it receives no further chunk.
C2_WriteOrdering ==
    \A r \in Reqs :
        /\ \A i \in DOMAIN chan[r].out :
              Kinds(chan[r])[i] \in {"body", "error"} =>
                  \E j \in 1..(i - 1) : Kinds(chan[r])[j] = "head"
        /\ chan[r].eos.seen =>
              /\ chan[r].eos.at = Len(chan[r].out)
              /\ "close" \in Range(ops[r])

\* One consumer has received head, body and the end, and another request's
\* body write has failed after its head was delivered.
C2_Witness ==
    \E r1, r2 \in Reqs :
        /\ Kinds(chan[r1]) = <<"head", "body">>
        /\ chan[r1].eos = EndedAt(2)
        /\ "write_body" \in rejected[r2]
        /\ Kinds(chan[r2]) = <<"head">>

\* C3: while nothing has rejected, the task issues a prefix of write head,
\* delay, write body, close and no error write; when it is over without a
\* rejection it has issued exactly that sequence, the consumer has received
\* exactly the head chunk and the body chunk of the request's config, in
\* that order, and what it finds next is the end of the stream.
C3_HappyPath ==
    \A r \in Reqs :
        rejected[r] = {} =>
            /\ IsPrefix(ops[r], HappyOps)
            /\ IsPrefix(Kinds(chan[r]), <<"head", "body">>)
            /\ tpc[r] = "done" =>
                  /\ ops[r] = HappyOps
                  /\ chan[r].out = << encodeChunk(generateHeadChunk(cfg[r])),
                                      encodeChunk(generateBodyChunk(cfg[r])) >>
                  /\ chan[r].r = "closed"
                  /\ chan[r].eos \in {NotEnded, EndedAt(2)}
                  /\ tres[r] = "fulfilled"

\* A run without any rejection is over and its consumer has seen the end.
C3_Witness ==
    \E r \in Reqs :
        /\ tpc[r] = "done"
        /\ rejected[r] = {}
        /\ chan[r].eos = EndedAt(2)

\* C4 as claimed: when the body write throws, the consumer ends up with
\* exactly two chunks, head then error.
C4_Original ==
    \A r \in Reqs :
        (tpc[r] = "done" /\ "write_body" \in rejected[r]) =>
            Kinds(chan[r]) = <<"head", "error">>

\* C4 as amended: when the body write throws, the task issues one error
\* write in place of the body chunk and then close, and nothing else; the
\* consumer has the head chunk and at most one more chunk, which is the
\* error chunk and is there only if the error write went through; it never
\* has the body chunk and never three chunks.
C4_ErrorPathAmended ==
    \A r \in Reqs :
        "write_body" \in rejected[r] =>
            /\ IsPrefix(ops[r], BodyFailureOps)
            /\ Len(ops[r]) >= 4
            /\ tpc[r] = "done" => ops[r] = BodyFailureOps
            /\ Kinds(chan[r]) \in {<<"head">>, <<"head", "error">>}
            /\ Len(chan[r].out) = 2 => "write_error" \notin rejected[r]

\* The body write threw, and the task wrote the error chunk and closed.
C4_Witness ==
    \E r \in Reqs :
        /\ tpc[r] = "done"
        /\ "write_body" \in rejected[r]
        /\ ops[r] = BodyFailureOps

C6_NeverRejects ==
    \A r \in Reqs :
        (tracked[r] /\ "write_body" \in rejected[r]) => tres[r] # "rejected"

\* C7 as claimed: when close is the one operation that fails, the task
\* still completes normally and its promise does not reject.
C7_CloseFailureSuppressed ==
    \A r \in Reqs :
        (tpc[r] = "done" /\ rejected[r] = {"close"}) => tres[r] = "fulfilled"

----------------------------------------------------------------------------
\* Properties of the writer, under SpecPipe

CloseOkAt(i) == plog[i].op = "close" /\ plog[i].res = "ok"

\* The writes that went through before call i.
OkWritesBefore(i) ==
    Cardinality({ k \in 1..(i - 1) : plog[k].op = "write" /\ plog[k].res = "ok" })

\* C8 as claimed: a close() after a close() that succeeded does not throw.
C8_SecondCloseDoesNotThrow ==
    \A i, j \in DOMAIN plog :
        (i < j /\ CloseOkAt(i) /\ plog[j].op = "close") => plog[j].res = "ok"

\* C9 as claimed: a close() after a write() that failed does not throw.
C9_CloseAfterFailedWrite ==
    \A i, j \in DOMAIN plog :
        (i < j /\ plog[i].op = "write" /\ plog[i].res = "rejected"
               /\ plog[j].op = "close") => plog[j].res = "ok"

\* C10: once close() has succeeded, every later write() fails, and the
\* readable end holds exactly the chunks written before the close.
C10_NoDeliveryAfterClose ==
    \A i \in DOMAIN plog :
        CloseOkAt(i) =>
            /\ \A j \in DOMAIN plog :
                  (i < j /\ plog[j].op = "write") => plog[j].res = "rejected"
            /\ Len(pipe.out) = OkWritesBefore(i)

\* A chunk was delivered, close() succeeded, and a later write() has settled.
C10_Witness ==
    \E i, j \in DOMAIN plog :
        /\ i < j
        /\ CloseOkAt(i)
        /\ plog[j].op = "write"
        /\ Len(pipe.out) = 1

----------------------------------------------------------------------------
\* What write() has put into the channel: the chunks of the writes that
\* resolved, in call order.
IsOkWrite(e) == e.op = "write" /\ e.res = "ok"

WrittenChunks == [ i \in DOMAIN SelectSeq(plog, IsOkWrite) |->
                     SelectSeq(plog, IsOkWrite)[i].chunk ]

----------------------------------------------------------------------------
\* Properties of handleStreamQuest

\* The positions of handleStreamQuest before its return statement.
BeforeReturn == {"created", "started", "registered"}

C13_TrackedBeforeReturn ==
    \A r \in Reqs :
        /\ hpc[r] = "returned" => tracked[r]
        /\ resp[r] # NoResponse /\ tres[r] = "pending" => tracked[r]
        /\ tracked[r] => tres[r] # "none"

\* The handler has returned and its tracked task is still in the delay.
C13_Witness ==
    \E r \in Reqs :
        /\ hpc[r] = "returned"
        /\ tpc[r] = "delay"
        /\ tracked[r]

\* C14: the Response of handleStreamQuest has status 200 from the moment it
\* is returned, whatever becomes of the streaming task, and no step changes
\* a Response once it exists: a failure shows only in what is written to
\* the channel.
C14_StatusAlways200 ==
    /\ [](\A r \in Reqs : hpc[r] = "returned" => resp[r].status = 200)
    /\ [][\A r \in Reqs : resp[r] # NoResponse => resp'[r] = resp[r]]_vars

\* One task has failed on its head write, another has completed, and both
\* responses carry 200.
C14_Witness ==
    \E r1, r2 \in Reqs :
        /\ tres[r1] = "rejected"
        /\ "write_head" \in rejected[r1]
        /\ resp[r1].status = 200
        /\ tres[r2] = "fulfilled"
        /\ resp[r2].status = 200

\* Everything the program holds for one request.
ReqState(r) ==
    <<hpc[r], cfg[r], tpc[r], chan[r], ops[r], rejected[r], texc[r], tres[r],
      tracked[r], resp[r], waited[r], page[r], sent[r]>>

\* The chunks of request r's own task, in the order the task writes them.
OwnChunks(r) ==
    << encodeChunk(generateHeadChunk(cfg[r])),
       encodeChunk(generateBodyChunk(cfg[r])) >>

\* C15: concurrent requests are independent.  Under every interleaving each
\* consumer holds only chunks of its own request's task, in that task's
\* order (head, then body or error), and a step that changes one request
\* (a write, a failure, a cancel, a close) leaves every other request's
\* channel, task and outcome as they were.
C15_IndependentRequests ==
    /\ [](\A r \in Reqs :
            \/ IsPrefix(chan[r].out, OwnChunks(r))
            \/ /\ Len(chan[r].out) = 2
               /\ chan[r].out[1] = OwnChunks(r)[1]
               /\ chan[r].out[2].text.kind = "error")
    /\ [][\A r1, r2 \in Reqs :
            (r1 # r2 /\ ReqState(r1)' # ReqState(r1)) =>
                ReqState(r2)' = ReqState(r2)]_vars

\* Two requests with different configs ran side by side: one failed after
\* its head chunk, the other completed with its own two chunks.
C15_Witness ==
    \E r1, r2 \in Reqs :
        /\ cfg[r1] # cfg[r2]
        /\ tres[r1] = "rejected"
        /\ chan[r1].out = <<OwnChunks(r1)[1]>>
        /\ tres[r2] = "fulfilled"
        /\ chan[r2].out = OwnChunks(r2)

----------------------------------------------------------------------------
\* Timing

\* C16: while the task is in the delay the last thing it has issued is the
\* delay itself (no write is issued during it), and the body write is issued
\* only once the timer started after the head write has run for at least
\* dungeonDelayMs.
C16_BodyAfterFullDelay ==
    \A r \in Reqs :
        /\ tpc[r] = "delay" =>
              /\ ops[r] = <<"write_head", "delay">>
              /\ Len(chan[r].out) = 1
        /\ "write_body" \in Range(ops[r]) =>
              waited[r] >= cfg[r].dungeonDelayMs

\* With a delay of 2000 ms the body write has been issued.
C16_Witness ==
    \E r \in Reqs :
        /\ cfg[r].dungeonDelayMs = 2000
        /\ "write_body" \in Range(ops[r])
        /\ waited[r] >= 2000

\* C17: handleNoStreamQuest has no Response and no page while its delay
\* runs; when it returns, the timer has run for at least dungeonDelayMs and
\* the body is the one complete document generated from the config and the
\* measured wait; a non-streaming request never opens a channel or writes a
\* chunk.
C17_NoStreamAfterFullDelay ==
    \A r \in Reqs :
        /\ hpc[r] = "nsDelay" => (resp[r] = NoResponse /\ page[r] = NoPage)
        /\ hpc[r] = "nsReturned" =>
              /\ waited[r] >= cfg[r].dungeonDelayMs
              /\ resp[r] # NoResponse
              /\ page[r] = generateFullPageHTML(cfg[r], waited[r])
              /\ page[r].closesDoc
        /\ hpc[r] \in {"nsDelay", "nsReturned"} =>
              /\ tpc[r] = "notStarted"
              /\ ops[r] = <<>>
              /\ chan[r].out = <<>>

\* A non-streaming request with a delay of 2000 ms has returned its page.
C17_Witness ==
    \E r \in Reqs :
        /\ hpc[r] = "nsReturned"
        /\ cfg[r].dungeonDelayMs = 2000
        /\ page[r].kind = "full"
        /\ page[r].dbTime >= 2000

----------------------------------------------------------------------------
\* Termination, under SpecLive

\* C18: every started streaming task eventually issues close and ends; no
\* run stays forever at the head write, in the delay, at the body write or
\* at the error write.
C18_EventuallyClosed ==
    \A r \in Reqs :
        (tpc[r] = "awaitHead") ~>
            (tpc[r] = "done" /\ "close" \in Range(ops[r]))

\* A task with a zero delay has completed, and a task whose head write
\* failed has ended as well.
C18_Witness ==
    \E r1, r2 \in Reqs :
        /\ cfg[r1].dungeonDelayMs = 0
        /\ tpc[r1] = "done"
        /\ rejected[r1] = {}
        /\ tpc[r2] = "done"
        /\ "write_head" \in rejected[r2]

----------------------------------------------------------------------------
\* The document the consumer ends up with

\* The values the catch block of the task can receive.
Throwables == CancelReasons \cup {"TypeError"}

\* C19: a consumer that has received the head chunk and then the end of the
\* stream has received, last before the end, a chunk that closes the
\* document: the body chunk or an error chunk; the stream never ends after
\* the head chunk alone.  Every error chunk the task can build closes the
\* document.
C19_EndedDocumentIsClosed ==
    /\ \A r \in Reqs :
          (chan[r].eos.seen /\ Len(chan[r].out) >= 1) =>
              /\ Len(chan[r].out) >= 2
              /\ Kinds(chan[r])[1] = "head"
              /\ Kinds(chan[r])[Len(chan[r].out)] \in {"body", "error"}
              /\ chan[r].out[Len(chan[r].out)].text.closesDoc
    /\ \A e \in Throwables : generateErrorChunk(ErrorMessage(e)).closesDoc

\* A consumer has read the head chunk, the body chunk and the end.
C19_Witness ==
    \E r \in Reqs :
        /\ chan[r].eos.seen
        /\ Kinds(chan[r]) = <<"head", "body">>
        /\ chan[r].out[2].text.closesDoc

----------------------------------------------------------------------------
\* Response headers

RequiredHeaders ==
    { <<"Content-Type", "text/html; charset=utf-8">>,
      <<"X-Content-Type-Options", "nosniff">>,
      <<"Cache-Control", "no-store">> }

\* C20: every Response of handleStreamQuest and of handleNoStreamQuest
\* carries Content-Type, X-Content-Type-Options and Cache-Control with
\* exactly the required values, for every config and every outcome of the
\* streaming task.
C20_FixedHeaders ==
    \A r \in Reqs :
        resp[r] # NoResponse =>
            \A h \in RequiredHeaders :
                /\ h \in resp[r].headers
                /\ \A x \in resp[r].headers : x[1] = h[1] => x = h

\* A streaming response whose task failed and a non-streaming response
\* exist side by side.
C20_Witness ==
    \E r1, r2 \in Reqs :
        /\ hpc[r1] = "returned"
        /\ tres[r1] = "rejected"
        /\ hpc[r2] = "nsReturned"
        /\ RequiredHeaders \subseteq resp[r1].headers
        /\ RequiredHeaders \subseteq resp[r2].headers

----------------------------------------------------------------------------
\* Properties of the router and of the default config, under SpecRouter

\* A request the router has handed to one of the two handlers.
Handled(r) == route[r].to \in {"stream", "noStream"} /\ hpc[r] # "idle"

\* C21: when no config is passed, both handlers run with dungeonDelayMs =
\* 2000 and armorDownloadMs = 800 (the chunks show these values and the body
\* write, or the non-streaming Response, waits for 2000 ms), and whatever
\* requests came before, /api/config reports exactly these two values.
C21_DefaultConfig ==
    /\ \A r \in Reqs :
          Handled(r) =>
              /\ cfg[r].dungeonDelayMs = 2000
              /\ cfg[r].armorDownloadMs = 800
              /\ \A i \in DOMAIN chan[r].out :
                    chan[r].out[i].text.kind \in {"head", "body"} =>
                        chan[r].out[i].text.delay = 2000
              /\ "write_body" \in Range(ops[r]) => waited[r] >= 2000
              /\ hpc[r] = "nsReturned" =>
                    (waited[r] >= 2000 /\ page[r].delay = 2000)
    /\ \A r \in Reqs :
          route[r].to = "config" =>
              /\ route[r].res.status = 200
              /\ route[r].res.config =
                    <<[dungeonDelayMs |-> 2000, armorDownloadMs |-> 800]>>

\* /api/config is answered while a request that asked for a delay of 0 in
\* its query string has been served by the streaming handler.
C21_Witness ==
    \E r1, r2 \in Reqs :
        /\ route[r1].to = "config"
        /\ route[r1].res.config = <<DEFAULT_QUEST_CONFIG>>
        /\ route[r2].to = "stream"
        /\ rq[r2].url.search = "?dungeonDelayMs=0"
        /\ tpc[r2] = "done"
        /\ Len(chan[r2].out) = 2

----------------------------------------------------------------------------
\* C22: no operation mutates a QuestConfig after its creation.  The module's
\* DEFAULT_QUEST_CONFIG keeps both of its fields at every step, and once a
\* handler has bound its config parameter no step of the handler, of the
\* streaming task or of another request changes either field of it; so a
\* config passed to one request leaves the default of the others as it was.
C22_ConfigNeverMutated ==
    /\ [](defaultConfig = [dungeonDelayMs |-> 2000, armorDownloadMs |-> 800])
    /\ [][/\ defaultConfig' = defaultConfig
          /\ \A r \in Reqs : hpc[r] # "idle" => cfg'[r] = cfg[r]]_vars

\* A request that was passed a delay of 0 and a request running with the
\* default have both completed, and the default is what it was.
C22_Witness ==
    \E r1, r2 \in Reqs :
        /\ cfg[r1].dungeonDelayMs = 0
        /\ tpc[r1] = "done"
        /\ cfg[r2] = defaultConfig
        /\ tpc[r2] = "done"
        /\ Len(chan[r2].out) = 2
        /\ defaultConfig = DEFAULT_QUEST_CONFIG

----------------------------------------------------------------------------
\* The branches a fetch can end in.
Branches == {"stream", "noStream", "compare", "config", "assets", "notFound"}

\* C23: the router dispatches by exact pathname.  '/quest' goes to the
\* streaming handler, '/quest/no-stream' to the non-streaming handler,
\* '/compare' to the comparison page, '/api/config' to the configuration
\* JSON; every other pathname, '/' and '/quest/' included, goes to the
\* asset binding, or to a 404 'Not Found' Response when the binding is
\* absent.  Every request gets exactly one branch, whatever its method,
\* query string, headers and body, and only a request sent to a handler
\* ever starts that handler.
C23_ExactPathDispatch ==
    \A r \in Reqs :
        route[r] # NoRoute =>
            /\ route[r].to \in Branches
            /\ route[r].to = "stream" <=> rq[r].url.pathname = "/quest"
            /\ route[r].to = "noStream" <=> rq[r].url.pathname = "/quest/no-stream"
            /\ route[r].to = "compare" <=> rq[r].url.pathname = "/compare"
            /\ route[r].to = "config" <=> rq[r].url.pathname = "/api/config"
            /\ route[r].to = "assets" <=>
                  /\ rq[r].url.pathname \notin
                        {"/quest", "/quest/no-stream", "/compare", "/api/config"}
                  /\ route[r].assets = "present"
            /\ route[r].to = "notFound" <=>
                  /\ rq[r].url.pathname \notin
                        {"/quest", "/quest/no-stream", "/compare", "/api/config"}
                  /\ route[r].assets = "absent"
            /\ rq[r].url.pathname \in
                  {"/quest", "/quest/no-stream", "/compare", "/api/config"} =>
                      route[r].assets = "unread"
            /\ route[r].to = "notFound" =>
                  (route[r].res.status = 404 /\ route[r].res.text = "Not Found")
            /\ route[r].to = "compare" =>
                  (route[r].res.status = 200
                     /\ route[r].res.text = "getComparisonHTML")
            /\ hpc[r] \in {"created", "started", "registered", "returned"} =>
                  route[r].to = "stream"
            /\ hpc[r] \in {"nsDelay", "nsReturned"} => route[r].to = "noStream"
            /\ route[r].to \notin {"stream", "noStream"} => hpc[r] = "idle"

\* In a deployment without the asset binding '/' got the 404, while a POST
\* to '/quest' with a query string was streamed.
C23_Witness ==
    \E r1, r2 \in Reqs :
        /\ rq[r1].url.pathname = "/"
        /\ route[r1].to = "notFound"
        /\ rq[r2].url.pathname = "/quest"
        /\ rq[r2].method = "POST"
        /\ hpc[r2] = "returned"

----------------------------------------------------------------------------
\* The catch path of streamQuestContent

\* The kinds of the chunks request r's task has passed to writer.write.
SentKinds(r) == [ i \in DOMAIN sent[r] |-> sent[r][i].text.kind ]

\* C24: the chunk written on the catch path is the encoded output of
\* generateErrorChunk for the message of the thrown value when that value is
\* an Error, and for the fixed text 'Unknown error' when it is anything
\* else; it is the only chunk written on the catch path, so the writes of a
\* failed run are head, error or head, body, error.
C24_ErrorChunkMessage ==
    \A r \in Reqs :
        "write_error" \in Range(ops[r]) =>
            /\ SentKinds(r) \in {<<"head", "error">>, <<"head", "body", "error">>}
            /\ chan[r].err = "CancelError" =>
                  sent[r][Len(sent[r])] =
                      encodeChunk(generateErrorChunk("CancelError"))
            /\ chan[r].err = "CancelValue" =>
                  sent[r][Len(sent[r])] =
                      encodeChunk(generateErrorChunk("Unknown error"))
            /\ chan[r].err \in CancelReasons

\* One task caught an Error after its body write failed, another caught a
\* value that is not an Error when its head write failed.
C24_Witness ==
    \E r1, r2 \in Reqs :
        /\ "write_body" \in rejected[r1]
        /\ chan[r1].err = "CancelError"
        /\ sent[r1][3].text.msg = "CancelError"
        /\ "write_head" \in rejected[r2]
        /\ chan[r2].err = "CancelValue"
        /\ sent[r2][2].text.msg = "Unknown error"

\* C25: in no run are both the body chunk and the error chunk written with
\* success.  The error write is issued only after the head write or the body
\* write has rejected, so a channel that has an error write never holds the
\* body chunk; a channel holds at most two chunks, and never the body chunk
\* followed by an error chunk.
C25_BodyXorError ==
    \A r \in Reqs :
        /\ ~("body" \in Range(Kinds(chan[r])) /\ "error" \in Range(Kinds(chan[r])))
        /\ "write_error" \in Range(ops[r]) =>
              /\ "body" \notin Range(Kinds(chan[r]))
              /\ \/ "write_head" \in rejected[r]
                 \/ "write_body" \in rejected[r]
        /\ Len(chan[r].out) <= 2
        /\ \A i, j \in DOMAIN chan[r].out :
              (i < j /\ Kinds(chan[r])[i] = "body") => Kinds(chan[r])[j] # "error"

\* One run delivered head and body and closed; in another the body write
\* failed and the error write was issued and settled.
C25_Witness ==
    \E r1, r2 \in Reqs :
        /\ Kinds(chan[r1]) = <<"head", "body">>
        /\ tpc[r1] = "done"
        /\ "write_error" \notin Range(ops[r1])
        /\ "write_body" \in rejected[r2]
        /\ "write_error" \in Range(ops[r2])
        /\ tpc[r2] = "done"
        /\ Kinds(chan[r2]) = <<"head">>

\* The writes among the operations a task has issued.
WritesIn(s) == SelectSeq(s, LAMBDA op : op \in {"write_head", "write_body", "write_error"})

\* C26: when the error write issued in catch itself throws, close is invoked
\* after it, exactly once, as the last operation of the task, and no write
\* is attempted after the failed error write.
C26_CloseAfterFailedErrorWrite ==
    \A r \in Reqs :
        "write_error" \in rejected[r] =>
            /\ ops[r] \in {HeadFailureOps, BodyFailureOps}
            /\ CountOf(ops[r], "close") = 1
            /\ CountOf(ops[r], "write_error") = 1
            /\ ops[r][Len(ops[r])] = "close"
            /\ ops[r][Len(ops[r]) - 1] = "write_error"
            /\ Len(sent[r]) = Len(WritesIn(ops[r]))
            /\ sent[r][Len(sent[r])].text.kind = "error"

\* The error write threw after a failed body write and the task has ended.
C26_Witness ==
    \E r \in Reqs :
        /\ {"write_body", "write_error"} \subseteq rejected[r]
        /\ tpc[r] = "done"
        /\ ops[r] = BodyFailureOps

----------------------------------------------------------------------------
----------------------------------------------------------------------------
\* C28: what the router's requests to '/quest' and '/quest/no-stream' get
\* does not depend on the method, the query string, the headers or the body
\* of the request.  Two requests to the same path run with the same config,
\* the default one, and so with the same delay; the chunks their tasks
\* write agree position by position wherever both wrote a chunk of the
\* same kind; their Responses have the same status and headers; and when
\* both streams end without a failure the consumers hold the same chunk
\* sequence.
C28_RequestPartsIgnored ==
    \A r1, r2 \in Reqs :
        (/\ Handled(r1)
         /\ Handled(r2)
         /\ rq[r1].url.pathname = rq[r2].url.pathname) =>
            /\ cfg[r1] = defaultConfig
            /\ cfg[r2] = cfg[r1]
            /\ \A i \in DOMAIN sent[r1] \cap DOMAIN sent[r2] :
                  sent[r1][i].text.kind = sent[r2][i].text.kind =>
                      \/ sent[r1][i] = sent[r2][i]
                      \/ sent[r1][i].text.kind = "error"
            /\ (resp[r1] # NoResponse /\ resp[r2] # NoResponse) =>
                  resp[r1] = resp[r2]
            /\ (/\ tpc[r1] = "done" /\ rejected[r1] = {}
                /\ tpc[r2] = "done" /\ rejected[r2] = {}) =>
                  chan[r1].out = chan[r2].out
            /\ (hpc[r1] = "nsReturned" /\ hpc[r2] = "nsReturned") =>
                  (page[r1].delay = page[r2].delay /\ page[r1].kind = page[r2].kind)

\* A plain GET and a POST carrying a delay of 0 in its query string, header
\* and body were both streamed from '/quest' to the end, with equal chunks.
C28_Witness ==
    \E r1, r2 \in Reqs :
        /\ rq[r1].url.pathname = "/quest"
        /\ rq[r2].url.pathname = "/quest"
        /\ rq[r1].method = "GET"
        /\ rq[r2].method = "POST"
        /\ rq[r1].url.search # rq[r2].url.search
        /\ rq[r1].headers # rq[r2].headers
        /\ rq[r1].body # rq[r2].body
        /\ tpc[r1] = "done" /\ rejected[r1] = {}
        /\ tpc[r2] = "done" /\ rejected[r2] = {}
        /\ Len(chan[r1].out) = 2
        /\ chan[r1].out = chan[r2].out

----------------------------------------------------------------------------
\* Properties of the comparison page, under SpecRace

\* The page shows a race that is reset.
ShowsReset ==
    /\ dom.resultStream = Dash
    /\ dom.resultTrad = Dash
    /\ dom.resultsHidden
    /\ dom.timeSavedHidden
    /\ \A id \in StatusIds : dom.status[id] = "none"

\* C29 as claimed: once resetRace has run and no startRace follows it, the
\* race stays reset: both result fields stay '--', the results panel and
\* the time-saved line stay hidden and every status item stays inactive,
\* also when resetRace is called while a race is in progress.
C29_ResetStaysReset ==
    (clicks # <<>> /\ clicks[Len(clicks)] = "reset") => ShowsReset

----------------------------------------------------------------------------
\* Properties of the quest logger, under SpecLogger

\* The 'Heavy Armor fully equipped' entries of the quest log.
ArmorEntries ==
    SelectSeq(questEntries.entries,
              LAMBDA e : e.message = "Heavy Armor fully equipped")

\* C30: whatever the order of the stylesheet onload events, the timeout of
\* onJsLoaded and the arrival of the log container, the 'Heavy Armor fully
\* equipped' entry is logged at most once and armorEquippedTime is set at
\* most once, and neither happens before onCssLoaded and onJsLoaded have
\* both been called at least once.
C30_ArmorEquippedOnce ==
    /\ armorSets <= 1
    /\ Len(ArmorEntries) <= 1
    /\ Len(ArmorEntries) <= armorSets
    /\ ~questState.armorEquippedTime.isNull <=> armorSets = 1
    /\ armorSets >= 1 =>
          /\ questState.cssLoaded
          /\ questState.jsLoaded
          /\ \E i \in Links : loader.links[i] = "called"
          /\ loader.jsTimer = "fired"
          /\ questState.armorEquippedTime.ms >= JsLoadedDelayMs

\* Every stylesheet link has called onCssLoaded, one of them after the armor
\* was equipped, onJsLoaded has run, and the log holds the one entry.
C30_Witness ==
    /\ \A i \in Links : loader.links[i] = "called"
    /\ loader.jsTimer = "fired"
    /\ armorSets = 1
    /\ Len(ArmorEntries) = 1
    /\ questState.armorEquippedTime.ms < elapsed

====
